---- MODULE Spec2Model ----
(***************************************************************************)
(* A model of the toy-browser pipeline: the CSS parser (css.rs), the style *)
(* resolver (style.rs) and the block layout engine (layout.rs).            *)
(*                                                                         *)
(* Numbers.  The program computes in f32.  Every length handed to the      *)
(* layout engine is an even, small integer number of pixels, for which f32 *)
(* addition, subtraction and halving are exact; they are modelled by the   *)
(* integer operations.                                                     *)
(*                                                                         *)
(* References.  A StyledNode refers to a document node and a LayoutBox to  *)
(* a StyledNode; a reference is modelled by the path of the node from the  *)
(* root of its tree (the sequence of child indices).                       *)
(***************************************************************************)
EXTENDS Integers, Sequences, FiniteSets, TLC

VARIABLES
    input,        \* parser: Parser::input, a sequence of one-character strings
    pos,          \* parser: Parser::pos
    ppc,          \* parser: where parse is: "rules" | "simple_selector" | "selector_list"
                  \*   | "declarations_open" | "declarations" | "returned" | "panic" | "idle"
    rules,        \* parser: the Vec of parse_rules
    selectors,    \* parser: the Vec of parse_selectors
    selector,     \* parser: the SimpleSelector of parse_simple_selector
    declaration,  \* parser: the Vec of parse_declarations
    parsed,       \* parser: the Stylesheet parse has returned, if any
    defects,      \* parser: the grammar errors the input was built with
    document,     \* style: the document tree handed to style_tree
    stylesheet,   \* style: the Stylesheet handed to style_tree
    spc,          \* style: "input" | "styled" | "idle"
    styled,       \* the StyledNode tree: made by style_tree, read by build_layout_tree
    containing,   \* layout: the Dimensions handed to layout() on the root
    root,         \* layout: the LayoutBox tree
    lpc           \* layout: "styled" | "built" | "laid" | "panic" | "idle"

parserVars == <<input, pos, ppc, rules, selectors, selector, declaration, parsed, defects>>
styleVars == <<document, stylesheet, spc>>
layoutVars == <<containing, root, lpc>>
vars == <<input, pos, ppc, rules, selectors, selector, declaration, parsed, defects,
          document, stylesheet, spc, styled, containing, root, lpc>>

----------------------------------------------------------------------------
(* css.rs: values *)

None == [type |-> "None"]

Keyword(s) == [type |-> "Keyword", s |-> s]

Length(f) == [type |-> "Length", f |-> f, unit |-> "Px"]

ColorValue(r, g, b) == [type |-> "ColorValue", r |-> r, g |-> g, b |-> b, a |-> 255]

to_px(v) == IF v.type = "Length" /\ v.unit = "Px" THEN v.f ELSE 0

----------------------------------------------------------------------------
(* style.rs: StyledNode accessors *)

EmptyMap == [n \in {} |-> None]

\* HashMap::insert
Insert(map, name, v) == [n \in DOMAIN map \cup {name} |-> IF n = name THEN v ELSE map[n]]

\* a property map from a list of <<name, value>> pairs
RECURSIVE MapOf(_)
MapOf(pairs) ==
    IF pairs = <<>> THEN EmptyMap
    ELSE Insert(MapOf(Tail(pairs)), Head(pairs)[1], Head(pairs)[2])

value(style, name) ==
    IF name \in DOMAIN style.specified_values THEN style.specified_values[name] ELSE None

lookup(style, name, fallback, default) ==
    IF value(style, name) # None THEN value(style, name)
    ELSE IF value(style, fallback) # None THEN value(style, fallback)
    ELSE default

display(style) ==
    LET v == value(style, "display")
    IN  IF v.type = "Keyword"
        THEN IF v.s = "block" THEN "Block"
             ELSE IF v.s = "none" THEN "None"
             ELSE "Inline"
        ELSE "Inline"

\* the node of a tree (document, styled or layout) at a path
RECURSIVE NodeAt(_, _)
NodeAt(tree, path) ==
    IF path = <<>> THEN tree ELSE NodeAt(tree.children[Head(path)], Tail(path))

\* the paths of all nodes of a tree, each prefixed by `prefix`
RECURSIVE Paths(_, _)
Paths(tree, prefix) ==
    {prefix} \cup UNION { Paths(tree.children[i], Append(prefix, i)) : i \in DOMAIN tree.children }

----------------------------------------------------------------------------
(* dom.rs: the document tree.  A String that the program splits or scans is *)
(* a sequence of one-character strings; every other String is a string.    *)

RECURSIVE Str(_)
\* the String of a sequence of characters
Str(chars) == IF chars = <<>> THEN "" ELSE Head(chars) \o Str(Tail(chars))

RECURSIVE Split(_, _)
\* str::split(sep): the pieces between the separators, empty pieces included
Split(chars, sep) ==
    IF chars = <<>> THEN <<"">>
    ELSE LET rest == Split(Tail(chars), sep)
         IN  IF Head(chars) = sep THEN <<"">> \o rest
             ELSE <<Head(chars) \o Head(rest)>> \o Tail(rest)

text(data) == [childlen |-> <<>>, node_type |-> [tag |-> "Text", data |-> data]]

elem(name, attrs, children) ==
    [childlen |-> children,
     node_type |-> [tag |-> "Element", tag_name |-> name, attributes |-> attrs]]

RECURSIVE DocNodeAt(_, _)
\* the document node at a path
DocNodeAt(node, path) ==
    IF path = <<>> THEN node ELSE DocNodeAt(node.childlen[Head(path)], Tail(path))

RECURSIVE DocPaths(_, _)
DocPaths(node, prefix) ==
    {prefix} \cup UNION { DocPaths(node.childlen[i], Append(prefix, i)) : i \in DOMAIN node.childlen }

\* an Option<T> is a sequence of at most one T
Some(v) == <<v>>

Nothing == <<>>

\* ElementData::id
id(el) ==
    IF "id" \in DOMAIN el.attributes THEN Some(Str(el.attributes["id"])) ELSE Nothing

Range(seq) == { seq[i] : i \in DOMAIN seq }

\* ElementData::classes
classes(el) ==
    IF "class" \in DOMAIN el.attributes
    THEN Range(Split(el.attributes["class"], " "))
    ELSE {}

----------------------------------------------------------------------------
(* css.rs: selectors and specificity *)

Declaration(name, v) == [name |-> name, value |-> v]

Rule(sels, decls) == [selectors |-> sels, declarations |-> decls]

SimpleSelector(tag_name, ident, class) == [tag_name |-> tag_name, id |-> ident, class |-> class]

specificity(sel) == <<Len(sel.id), Len(sel.class), Len(sel.tag_name)>>

\* the order of (usize, usize, usize)
SpecificityLess(a, b) ==
    \/ a[1] < b[1]
    \/ a[1] = b[1] /\ a[2] < b[2]
    \/ a[1] = b[1] /\ a[2] = b[2] /\ a[3] < b[3]

----------------------------------------------------------------------------
(* css.rs: characters *)

LowerCase ==
    <<"a", "b", "c", "d", "e", "f", "g", "h", "i", "j", "k", "l", "m",
      "n", "o", "p", "q", "r", "s", "t", "u", "v", "w", "x", "y", "z">>

UpperCase ==
    <<"A", "B", "C", "D", "E", "F", "G", "H", "I", "J", "K", "L", "M",
      "N", "O", "P", "Q", "R", "S", "T", "U", "V", "W", "X", "Y", "Z">>

Digits == <<"0", "1", "2", "3", "4", "5", "6", "7", "8", "9">>

\* char::is_whitespace, on ASCII
WhiteSpace == {" ", "\n", "\t", "\r", "\f"}

valid_identifier_char == Range(LowerCase) \cup Range(UpperCase) \cup Range(Digits) \cup {"-", "_"}

FloatChars == Range(Digits) \cup {"."}

IndexOf(seq, c) == CHOOSE i \in DOMAIN seq : seq[i] = c

\* the value of a decimal digit
DigitValue(c) == IndexOf(Digits, c) - 1

\* char::to_digit(16), for a character that is a hex digit
HexValue(c) ==
    IF c \in Range(Digits) THEN DigitValue(c)
    ELSE IF c \in Range(LowerCase) THEN 9 + IndexOf(LowerCase, c)
    ELSE 9 + IndexOf(UpperCase, c)

IsHexDigit(c) ==
    \/ c \in Range(Digits)
    \/ c \in Range(SubSeq(LowerCase, 1, 6))
    \/ c \in Range(SubSeq(UpperCase, 1, 6))

\* a variant: signs are not accepted, the two characters must be hex digits
from_str_radix_16_strict(s) ==
    IF IsHexDigit(s[1]) /\ IsHexDigit(s[2])
    THEN [ok |-> TRUE, v |-> 16 * HexValue(s[1]) + HexValue(s[2])]
    ELSE [ok |-> FALSE]

\* u8::from_str_radix(s, 16) on a string of two characters: hex digits, after
\* an optional "+" sign
from_str_radix_16(s) ==
    IF IsHexDigit(s[1]) /\ IsHexDigit(s[2])
    THEN [ok |-> TRUE, v |-> 16 * HexValue(s[1]) + HexValue(s[2])]
    ELSE IF s[1] = "+" /\ IsHexDigit(s[2])
    THEN [ok |-> TRUE, v |-> HexValue(s[2])]
    ELSE [ok |-> FALSE]

\* char::to_ascii_lowercase
to_ascii_lowercase(c) == IF c \in Range(UpperCase) THEN LowerCase[IndexOf(UpperCase, c)] ELSE c

RECURSIVE DecimalValue(_)
\* the number a sequence of decimal digits denotes
DecimalValue(ds) ==
    IF ds = <<>> THEN 0 ELSE 10 * DecimalValue(SubSeq(ds, 1, Len(ds) - 1)) + DigitValue(ds[Len(ds)])

\* str::parse::<f32> on a string of digits and dots that starts with a digit:
\* it fails when there is more than one dot.  The literals of the model have no
\* fraction digit other than 0, so that the value is the integer part.
parse_f32(s) ==
    LET dots == { i \in DOMAIN s : s[i] = "." }
    IN  IF s = <<>> \/ Cardinality(dots) > 1 THEN [ok |-> FALSE]
        ELSE LET int == IF dots = {} THEN s
                        ELSE SubSeq(s, 1, (CHOOSE i \in dots : TRUE) - 1)
             IN  [ok |-> TRUE, v |-> DecimalValue(int)]

----------------------------------------------------------------------------
(* css.rs: the parser.  Positions are byte offsets; the input is ASCII, so    *)
(* that consume_char advances by one.  A function that may panic yields a     *)
(* record whose ok field tells whether it returned.                           *)

eof(p) == p >= Len(input)

\* next_char at a position that is not at the end
next_char(p) == input[p + 1]

\* a `let` of the source: F applied to the value of v, which is worked out once
Bind(v, F(_)) == CHOOSE r \in { F(x) : x \in {v} } : TRUE

RECURSIVE consume_while(_, _)
\* consume_while from position p: the position reached and the characters taken
consume_while(p, test) ==
    IF ~eof(p) /\ next_char(p) \in test
    THEN Bind(consume_while(p + 1, test), LAMBDA r :
             [pos |-> r.pos, s |-> <<next_char(p)>> \o r.s])
    ELSE [pos |-> p, s |-> <<>>]

consume_whitespace(p) == consume_while(p, WhiteSpace).pos

parse_identifier(p) == consume_while(p, valid_identifier_char)

Panic == [ok |-> FALSE]

\* consume_char() compared with an expected character by assert_eq!
Expect(p, c) == IF ~eof(p) /\ next_char(p) = c THEN [ok |-> TRUE, pos |-> p + 1] ELSE Panic

parse_float(p) ==
    Bind(consume_while(p, FloatChars), LAMBDA r :
    Bind(parse_f32(r.s), LAMBDA f :
        IF f.ok THEN [ok |-> TRUE, pos |-> r.pos, v |-> f.v] ELSE Panic))

parse_unit(p) ==
    Bind(parse_identifier(p), LAMBDA r :
        IF [i \in DOMAIN r.s |-> to_ascii_lowercase(r.s[i])] = <<"p", "x">>
        THEN [ok |-> TRUE, pos |-> r.pos]
        ELSE Panic)

parse_length(p) ==
    Bind(parse_float(p), LAMBDA f :
        IF ~f.ok THEN Panic
        ELSE
    Bind(parse_unit(f.pos), LAMBDA u :
        IF ~u.ok THEN Panic
        ELSE [ok |-> TRUE, pos |-> u.pos, v |-> Length(f.v)]))

\* the slice input[pos..pos + 2] must lie within the input
parse_hex_pair(p) ==
    IF p + 2 > Len(input) THEN Panic
    ELSE Bind(from_str_radix_16(SubSeq(input, p + 1, p + 2)), LAMBDA n :
             IF n.ok THEN [ok |-> TRUE, pos |-> p + 2, v |-> n.v] ELSE Panic)

parse_color(p) ==
    Bind(Expect(p, "#"), LAMBDA h :
        IF ~h.ok THEN Panic
        ELSE
    Bind(parse_hex_pair(h.pos), LAMBDA r :
        IF ~r.ok THEN Panic
        ELSE
    Bind(parse_hex_pair(r.pos), LAMBDA g :
        IF ~g.ok THEN Panic
        ELSE
    Bind(parse_hex_pair(g.pos), LAMBDA b :
        IF ~b.ok THEN Panic
        ELSE [ok |-> TRUE, pos |-> b.pos, v |-> ColorValue(r.v, g.v, b.v)]))))

parse_value(p) ==
    IF eof(p) THEN Panic
    ELSE IF next_char(p) \in Range(Digits) THEN parse_length(p)
    ELSE IF next_char(p) = "#" THEN parse_color(p)
    ELSE Bind(parse_identifier(p), LAMBDA k :
             [ok |-> TRUE, pos |-> k.pos, v |-> Keyword(Str(k.s))])

parse_declaration(p) ==
    Bind(parse_identifier(p), LAMBDA property_type :
    Bind(Expect(consume_whitespace(property_type.pos), ":"), LAMBDA colon :
        IF ~colon.ok THEN Panic
        ELSE
    Bind(parse_value(consume_whitespace(colon.pos)), LAMBDA val :
        IF ~val.ok THEN Panic
        ELSE
    Bind(Expect(consume_whitespace(val.pos), ";"), LAMBDA semi :
        IF ~semi.ok THEN Panic
        ELSE [ok |-> TRUE, pos |-> semi.pos,
              v |-> Declaration(Str(property_type.s), val.v)]))))

\* a slip: the key is not reversed, the sort is ascending
InsertSelectorAscending(sorted, x) ==
    LET before == { i \in DOMAIN sorted : ~SpecificityLess(specificity(x), specificity(sorted[i])) }
        k == Cardinality(before)
    IN  SubSeq(sorted, 1, k) \o <<x>> \o SubSeq(sorted, k + 1, Len(sorted))

\* x put into a sequence sorted by descending specificity, after every element
\* whose key Reverse(specificity) is not greater than that of x
InsertSelector(sorted, x) ==
    LET before == { i \in DOMAIN sorted : ~SpecificityLess(specificity(sorted[i]), specificity(x)) }
        k == Cardinality(before)
    IN  SubSeq(sorted, 1, k) \o <<x>> \o SubSeq(sorted, k + 1, Len(sorted))

RECURSIVE SortSelectors(_)
\* selectors.sort_by_key(|b| Reverse(b.specificity())): stable
SortSelectors(sels) ==
    IF sels = <<>> THEN <<>>
    ELSE InsertSelector(SortSelectors(SubSeq(sels, 1, Len(sels) - 1)), sels[Len(sels)])

NewSelector == SimpleSelector(Nothing, Nothing, <<>>)

\* any panic: the parse is over and nothing is returned
Abort ==
    /\ ppc' = "panic"
    /\ UNCHANGED <<pos, rules, selectors, selector, declaration, parsed>>

\* one iteration of the loop of parse_rules
ParseRules ==
    /\ ppc = "rules"
    /\ pos' = consume_whitespace(pos)
    /\ IF eof(pos')
       THEN /\ parsed' = Some([rules |-> rules])
            /\ ppc' = "returned"
            /\ UNCHANGED <<selectors, selector>>
       ELSE /\ selectors' = <<>>
            /\ selector' = NewSelector
            /\ ppc' = "simple_selector"
            /\ UNCHANGED parsed
    /\ UNCHANGED <<input, defects, rules, declaration>>
    /\ UNCHANGED <<styleVars, styled, layoutVars>>

\* parse_simple_selector continues: the loop is entered and its match does not break
SimpleSelectorContinues ==
    /\ ~eof(pos)
    /\ next_char(pos) \in {"#", ".", "*"} \cup valid_identifier_char

\* a slip: the arm of "*" does not consume the character
ParseSimpleSelectorStarKept ==
    /\ ppc = "simple_selector"
    /\ SimpleSelectorContinues
    /\ LET c == next_char(pos)
           name == parse_identifier(IF c \in {"#", "."} THEN pos + 1 ELSE pos)
       IN  CASE c = "#" -> /\ selector' = [selector EXCEPT !.id = Some(Str(name.s))]
                           /\ pos' = name.pos
             [] c = "." -> /\ selector' = [selector EXCEPT !.class = Append(@, Str(name.s))]
                           /\ pos' = name.pos
             [] c = "*" -> /\ selector' = selector
                           /\ pos' = pos
             [] OTHER   -> /\ selector' = [selector EXCEPT !.tag_name = Some(Str(name.s))]
                           /\ pos' = name.pos
    /\ UNCHANGED <<input, defects, ppc, rules, selectors, declaration, parsed>>
    /\ UNCHANGED <<styleVars, styled, layoutVars>>

\* one iteration of the loop of parse_simple_selector
ParseSimpleSelector ==
    /\ ppc = "simple_selector"
    /\ SimpleSelectorContinues
    /\ LET c == next_char(pos)
           name == parse_identifier(IF c \in {"#", "."} THEN pos + 1 ELSE pos)
       IN  CASE c = "#" -> /\ selector' = [selector EXCEPT !.id = Some(Str(name.s))]
                           /\ pos' = name.pos
             [] c = "." -> /\ selector' = [selector EXCEPT !.class = Append(@, Str(name.s))]
                           /\ pos' = name.pos
             [] c = "*" -> /\ selector' = selector
                           /\ pos' = pos + 1
             [] OTHER   -> /\ selector' = [selector EXCEPT !.tag_name = Some(Str(name.s))]
                           /\ pos' = name.pos
    /\ UNCHANGED <<input, defects, ppc, rules, selectors, declaration, parsed>>
    /\ UNCHANGED <<styleVars, styled, layoutVars>>

\* parse_simple_selector returns and parse_selectors pushes the selector
PushSelector ==
    /\ ppc = "simple_selector"
    /\ ~SimpleSelectorContinues
    /\ selectors' = Append(selectors, selector)
    /\ ppc' = "selector_list"
    /\ UNCHANGED <<input, defects, pos, rules, selector, declaration, parsed>>
    /\ UNCHANGED <<styleVars, styled, layoutVars>>

\* the rest of an iteration of the loop of parse_selectors; on "{" the loop
\* ends, the selectors are sorted and parse_selectors returns
ParseSelectors ==
    /\ ppc = "selector_list"
    /\ LET p == consume_whitespace(pos)
       IN  IF eof(p) THEN Abort
           ELSE CASE next_char(p) = "," ->
                         /\ pos' = consume_whitespace(p + 1)
                         /\ selector' = NewSelector
                         /\ ppc' = "simple_selector"
                         /\ UNCHANGED <<rules, selectors, declaration, parsed>>
                  [] next_char(p) = "{" ->
                         /\ pos' = p
                         /\ selectors' = SortSelectors(selectors)
                         /\ ppc' = "declarations_open"
                         /\ UNCHANGED <<rules, selector, declaration, parsed>>
                  [] OTHER -> Abort
    /\ UNCHANGED <<input, defects>>
    /\ UNCHANGED <<styleVars, styled, layoutVars>>

\* parse_declarations up to its loop
ParseDeclarationsOpen ==
    /\ ppc = "declarations_open"
    /\ LET open == Expect(pos, "{")
       IN  IF ~open.ok THEN Abort
           ELSE /\ pos' = open.pos
                /\ declaration' = <<>>
                /\ ppc' = "declarations"
                /\ UNCHANGED <<rules, selectors, selector, parsed>>
    /\ UNCHANGED <<input, defects>>
    /\ UNCHANGED <<styleVars, styled, layoutVars>>

\* one iteration of the loop of parse_declarations; on "}" the loop ends,
\* parse_rule returns and parse_rules pushes the rule
ParseDeclarations ==
    /\ ppc = "declarations"
    /\ LET p == consume_whitespace(pos)
       IN  IF eof(p) THEN Abort
           ELSE IF next_char(p) = "}"
           THEN /\ pos' = p + 1
                /\ rules' = Append(rules, Rule(selectors, declaration))
                /\ ppc' = "rules"
                /\ UNCHANGED <<selectors, selector, declaration, parsed>>
           ELSE LET d == parse_declaration(p)
                IN  IF ~d.ok THEN Abort
                    ELSE /\ pos' = d.pos
                         /\ declaration' = Append(declaration, d.v)
                         /\ UNCHANGED <<ppc, rules, selectors, selector, parsed>>
    /\ UNCHANGED <<input, defects>>
    /\ UNCHANGED <<styleVars, styled, layoutVars>>

NextParse ==
    \/ ParseRules
    \/ ParseSimpleSelector
    \/ PushSelector
    \/ ParseSelectors
    \/ ParseDeclarationsOpen
    \/ ParseDeclarations

----------------------------------------------------------------------------
(* style.rs: matching and the cascade *)

matchs_simple_selector(el, sel) ==
    IF \E i \in DOMAIN sel.tag_name : el.tag_name # sel.tag_name[i] THEN FALSE
    ELSE IF \E i \in DOMAIN sel.id : id(el) # Some(sel.id[i]) THEN FALSE
    ELSE IF \E i \in DOMAIN sel.class : sel.class[i] \notin classes(el) THEN FALSE
    ELSE TRUE

matchs(el, sel) == matchs_simple_selector(el, sel)

\* a slip: the last matching selector is taken instead of the first
match_rule_last(el, rs, r) ==
    LET hits == { i \in DOMAIN rs[r].selectors : matchs(el, rs[r].selectors[i]) }
    IN  IF hits = {} THEN Nothing
        ELSE LET last == CHOOSE i \in hits : \A j \in hits : j <= i
             IN  Some([specificity |-> specificity(rs[r].selectors[last]), rule |-> r])

\* match_rule on rule number r of the stylesheet; the &Rule of the result is r
match_rule(el, rs, r) ==
    LET hits == { i \in DOMAIN rs[r].selectors : matchs(el, rs[r].selectors[i]) }
    IN  IF hits = {} THEN Nothing
        ELSE LET first == CHOOSE i \in hits : \A j \in hits : i <= j
             IN  Some([specificity |-> specificity(rs[r].selectors[first]), rule |-> r])

RECURSIVE MatchingFrom(_, _, _)
MatchingFrom(el, rs, r) ==
    IF r > Len(rs) THEN <<>>
    ELSE match_rule(el, rs, r) \o MatchingFrom(el, rs, r + 1)

matching_rules(el, sheet) == MatchingFrom(el, sheet.rules, 1)

\* a slip: an insertion that puts x before the elements of equal specificity
InsertBySpecificityUnstable(sorted, x) ==
    LET before == { i \in DOMAIN sorted : SpecificityLess(sorted[i].specificity, x.specificity) }
        k == Cardinality(before)
    IN  SubSeq(sorted, 1, k) \o <<x>> \o SubSeq(sorted, k + 1, Len(sorted))

\* x put into a sequence sorted by ascending specificity, after every element
\* that is not greater than x
InsertBySpecificity(sorted, x) ==
    LET before == { i \in DOMAIN sorted : ~SpecificityLess(x.specificity, sorted[i].specificity) }
        k == Cardinality(before)
    IN  SubSeq(sorted, 1, k) \o <<x>> \o SubSeq(sorted, k + 1, Len(sorted))

RECURSIVE SortBySpecificity(_)
\* rules.sort_by(|&(a, _), &(b, _)| a.cmp(&b)): stable, ascending
SortBySpecificity(matched) ==
    IF matched = <<>> THEN <<>>
    ELSE InsertBySpecificity(SortBySpecificity(SubSeq(matched, 1, Len(matched) - 1)),
                             matched[Len(matched)])

RECURSIVE InsertDeclarations(_, _)
\* the inner loop of specified_values
InsertDeclarations(values, declarations) ==
    IF declarations = <<>> THEN values
    ELSE InsertDeclarations(Insert(values, Head(declarations).name, Head(declarations).value),
                            Tail(declarations))

RECURSIVE InsertRules(_, _, _)
\* the outer loop of specified_values
InsertRules(values, matched, sheet) ==
    IF matched = <<>> THEN values
    ELSE InsertRules(InsertDeclarations(values, sheet.rules[Head(matched).rule].declarations),
                     Tail(matched), sheet)

specified_values(el, sheet) ==
    InsertRules(EmptyMap, SortBySpecificity(matching_rules(el, sheet)), sheet)

RECURSIVE style_tree_pruned(_, _, _)
\* a variant: children whose display resolves to none are left out
style_tree_pruned(node, path, sheet) ==
    LET all == [i \in DOMAIN node.childlen |->
                   style_tree_pruned(node.childlen[i], Append(path, i), sheet)]
    IN  [node |-> path,
         specified_values |-> IF node.node_type.tag = "Element"
                              THEN specified_values(node.node_type, sheet)
                              ELSE EmptyMap,
         children |-> SelectSeq(all, LAMBDA c : display(c) # "None")]

RECURSIVE style_tree(_, _, _)
\* style_tree on the document node at `path`
style_tree(node, path, sheet) ==
    [node |-> path,
     specified_values |-> IF node.node_type.tag = "Element"
                          THEN specified_values(node.node_type, sheet)
                          ELSE EmptyMap,
     children |-> [i \in DOMAIN node.childlen |->
                      style_tree(node.childlen[i], Append(path, i), sheet)]]

----------------------------------------------------------------------------
(* layout.rs: geometry *)

ZeroEdges == [left |-> 0, right |-> 0, top |-> 0, bottom |-> 0]

ZeroRect == [x |-> 0, y |-> 0, width |-> 0, height |-> 0]

DefaultDimensions ==
    [content |-> ZeroRect, padding |-> ZeroEdges, border |-> ZeroEdges, margin |-> ZeroEdges]

expended_by(rect, edge) ==
    [x |-> rect.x - edge.left,
     y |-> rect.y - edge.top,
     width |-> rect.width + edge.left + edge.right,
     height |-> rect.height + edge.top + edge.bottom]

padding_box(d) == expended_by(d.content, d.padding)

border_box(d) == expended_by(padding_box(d), d.border)

margin_box(d) == expended_by(border_box(d), d.margin)

----------------------------------------------------------------------------
(* layout.rs: the box tree *)

BlockNode(ref) == [tag |-> "BlockNode", node |-> ref]

InlineNode(ref) == [tag |-> "InlineNode", node |-> ref]

AnonymousBlock == [tag |-> "AnonymousBlock"]

LayoutBox_new(box_type) ==
    [dimensions |-> DefaultDimensions, box_type |-> box_type, children |-> <<>>]

\* the root variable before build_layout_tree has run
NoBox == [dimensions |-> DefaultDimensions, box_type |-> [tag |-> "NoBox"], children |-> <<>>]

\* a slip: a new anonymous box for every inline child
get_inline_container_always_new(box) ==
    IF box.box_type.tag \in {"InlineNode", "AnonymousBlock"}
    THEN [box |-> box, at |-> "self"]
    ELSE [box |-> [box EXCEPT !.children = Append(@, LayoutBox_new(AnonymousBlock))],
          at |-> "last"]

\* get_inline_container: the box with the container in place, and where the
\* returned reference points ("self" or "last", the last child)
get_inline_container(box) ==
    IF box.box_type.tag \in {"InlineNode", "AnonymousBlock"}
    THEN [box |-> box, at |-> "self"]
    ELSE IF Len(box.children) > 0 /\ box.children[Len(box.children)].box_type.tag = "AnonymousBlock"
         THEN [box |-> box, at |-> "last"]
         ELSE [box |-> [box EXCEPT !.children = Append(@, LayoutBox_new(AnonymousBlock))],
               at |-> "last"]

\* get_inline_container().children.push(child)
PushInline(box, child) ==
    LET c == get_inline_container(box)
    IN  IF c.at = "self"
        THEN [c.box EXCEPT !.children = Append(@, child)]
        ELSE [c.box EXCEPT !.children[Len(c.box.children)].children = Append(@, child)]

\* a slip: a display:none child is treated as a block child
AppendChildKeepNone(box, child_display, child_box) ==
    CASE child_display \in {"Block", "None"} -> [box EXCEPT !.children = Append(@, child_box)]
      [] child_display = "Inline" -> PushInline(box, child_box)

\* the match of lines 259-266 on one child: `child_box` is build_layout_tree(child)
AppendChild(box, child_display, child_box) ==
    CASE child_display = "Block" -> [box EXCEPT !.children = Append(@, child_box)]
      [] child_display = "Inline" -> PushInline(box, child_box)
      [] child_display = "None" -> box

RECURSIVE build_layout_tree(_), BuildChildren(_, _, _)
\* the loop of build_layout_tree over style_node.children, from child i on
BuildChildren(box, style_node, i) ==
    IF i > Len(style_node.children) THEN box
    ELSE LET child == style_node.children[i]
         IN  BuildChildren(AppendChild(box, display(child), build_layout_tree(child)),
                           style_node, i + 1)

\* called only on nodes whose display is not None (the root is guarded by the
\* action, children by the match in the loop)
build_layout_tree(style_node) ==
    LET new == LayoutBox_new(IF display(style_node) = "Block"
                             THEN BlockNode(style_node.node)
                             ELSE InlineNode(style_node.node))
    IN  BuildChildren(new, style_node, 1)

get_style_node(box) == NodeAt(styled, box.box_type.node)

----------------------------------------------------------------------------
(* layout.rs: calculate_block_width *)

Auto == Keyword("auto")

Zero == Length(0)

\* lines 119-126: margins that are auto become 0 when the fixed parts overflow
OverflowPreStep(width, margin, total, cw) ==
    IF width # Auto /\ total > cw /\ margin = Auto THEN Length(0) ELSE margin

\* a slip: the excess is absorbed into margin-left
ArmOverConstrainedIntoLeft(width, margin_left, margin_right, underflow) ==
    [width |-> width, margin_left |-> Length(to_px(margin_left) + underflow),
     margin_right |-> margin_right]

\* the arms of the match of lines 133-172; each yields the three used values
ArmOverConstrained(width, margin_left, margin_right, underflow) ==
    [width |-> width, margin_left |-> margin_left,
     margin_right |-> Length(to_px(margin_right) + underflow)]

ArmLeftAuto(width, margin_left, margin_right, underflow) ==
    [width |-> width, margin_left |-> Length(underflow), margin_right |-> margin_right]

\* a slip: the underflow is given to margin-left, as in the arm above
ArmRightAutoIntoLeft(width, margin_left, margin_right, underflow) ==
    [width |-> width, margin_left |-> Length(underflow), margin_right |-> margin_right]

ArmRightAuto(width, margin_left, margin_right, underflow) ==
    [width |-> width, margin_left |-> margin_left, margin_right |-> Length(underflow)]

\* a slip: the width takes the underflow even when it is negative
ArmWidthAutoUnclamped(width, margin_left, margin_right, underflow) ==
    [width |-> Length(underflow),
     margin_left |-> IF margin_left = Auto THEN Length(0) ELSE margin_left,
     margin_right |-> IF margin_right = Auto THEN Length(0) ELSE margin_right]

ArmWidthAuto(width, margin_left, margin_right, underflow) ==
    LET ml == IF margin_left = Auto THEN Length(0) ELSE margin_left
        mr == IF margin_right = Auto THEN Length(0) ELSE margin_right
    IN  IF underflow >= 0
        THEN [width |-> Length(underflow), margin_left |-> ml, margin_right |-> mr]
        ELSE [width |-> Length(0), margin_left |-> ml,
              margin_right |-> Length(to_px(mr) + underflow)]

\* a slip: the whole underflow goes to margin-left
ArmBothAutoLeftOnly(width, margin_left, margin_right, underflow) ==
    [width |-> width, margin_left |-> Length(underflow), margin_right |-> Length(0)]

ArmBothAuto(width, margin_left, margin_right, underflow) ==
    [width |-> width, margin_left |-> Length(underflow \div 2),
     margin_right |-> Length(underflow \div 2)]

calculate_block_width(box, containing_block) ==
    LET style == get_style_node(box)
        width == IF value(style, "width") # None THEN value(style, "width") ELSE Auto
        margin_left0 == lookup(style, "margin-left", "margin", Zero)
        margin_right0 == lookup(style, "margin-right", "margin", Zero)
        border_left == lookup(style, "border-left-width", "border-width", Zero)
        border_right == lookup(style, "border-right-width", "border-width", Zero)
        padding_left == lookup(style, "padding-left", "padding", Zero)
        padding_right == lookup(style, "padding-right", "padding", Zero)
        total == to_px(margin_left0) + to_px(margin_right0) + to_px(border_left)
                 + to_px(border_right) + to_px(padding_left) + to_px(padding_right)
                 + to_px(width)
        cw == containing_block.content.width
        margin_left == OverflowPreStep(width, margin_left0, total, cw)
        margin_right == OverflowPreStep(width, margin_right0, total, cw)
        underflow == cw - total
        used == CASE width # Auto /\ margin_left # Auto /\ margin_right # Auto ->
                        ArmOverConstrained(width, margin_left, margin_right, underflow)
                  [] width # Auto /\ margin_left = Auto /\ margin_right # Auto ->
                        ArmLeftAuto(width, margin_left, margin_right, underflow)
                  [] width # Auto /\ margin_left # Auto /\ margin_right = Auto ->
                        ArmRightAuto(width, margin_left, margin_right, underflow)
                  [] width = Auto ->
                        ArmWidthAuto(width, margin_left, margin_right, underflow)
                  [] width # Auto /\ margin_left = Auto /\ margin_right = Auto ->
                        ArmBothAuto(width, margin_left, margin_right, underflow)
    IN  [box EXCEPT !.dimensions.content.width = to_px(used.width),
                    !.dimensions.padding.left = to_px(padding_left),
                    !.dimensions.padding.right = to_px(padding_right),
                    !.dimensions.border.left = to_px(border_left),
                    !.dimensions.border.right = to_px(border_right),
                    !.dimensions.margin.left = to_px(used.margin_left),
                    !.dimensions.margin.right = to_px(used.margin_right)]

----------------------------------------------------------------------------
(* layout.rs: position, children, height *)

\* a slip: the running height of the containing block is not added to y
calculate_block_position_no_cursor(box, containing_block) ==
    LET style == get_style_node(box)
        d == box.dimensions
        margin_top == to_px(lookup(style, "margin-top", "margin", Zero))
        margin_bottom == to_px(lookup(style, "margin-bottom", "margin", Zero))
        border_top == to_px(lookup(style, "border-top-width", "border-width", Zero))
        border_bottom == to_px(lookup(style, "border-bottom-width", "border-width", Zero))
        padding_top == to_px(lookup(style, "padding-top", "padding", Zero))
        padding_bottom == to_px(lookup(style, "padding-bottom", "padding", Zero))
    IN  [box EXCEPT !.dimensions.margin.top = margin_top,
                    !.dimensions.margin.bottom = margin_bottom,
                    !.dimensions.border.top = border_top,
                    !.dimensions.border.bottom = border_bottom,
                    !.dimensions.padding.top = padding_top,
                    !.dimensions.padding.bottom = padding_bottom,
                    !.dimensions.content.x =
                        containing_block.content.x + d.margin.left + d.border.left + d.padding.left,
                    !.dimensions.content.y =
                        containing_block.content.y + margin_top + border_top + padding_top]

calculate_block_position(box, containing_block) ==
    LET style == get_style_node(box)
        d == box.dimensions
        margin_top == to_px(lookup(style, "margin-top", "margin", Zero))
        margin_bottom == to_px(lookup(style, "margin-bottom", "margin", Zero))
        border_top == to_px(lookup(style, "border-top-width", "border-width", Zero))
        border_bottom == to_px(lookup(style, "border-bottom-width", "border-width", Zero))
        padding_top == to_px(lookup(style, "padding-top", "padding", Zero))
        padding_bottom == to_px(lookup(style, "padding-bottom", "padding", Zero))
    IN  [box EXCEPT !.dimensions.margin.top = margin_top,
                    !.dimensions.margin.bottom = margin_bottom,
                    !.dimensions.border.top = border_top,
                    !.dimensions.border.bottom = border_bottom,
                    !.dimensions.padding.top = padding_top,
                    !.dimensions.padding.bottom = padding_bottom,
                    !.dimensions.content.x =
                        containing_block.content.x + d.margin.left + d.border.left + d.padding.left,
                    !.dimensions.content.y =
                        containing_block.content.height + containing_block.content.y
                        + margin_top + border_top + padding_top]

\* a slip: any declared height is used, a keyword counting as 0
calculate_block_height_to_px(box) ==
    LET h == value(get_style_node(box), "height")
    IN  IF h # None
        THEN [box EXCEPT !.dimensions.content.height = to_px(h)]
        ELSE box

calculate_block_height(box) ==
    LET h == value(get_style_node(box), "height")
    IN  IF h.type = "Length" /\ h.unit = "Px"
        THEN [box EXCEPT !.dimensions.content.height = h.f]
        ELSE box

RECURSIVE layout(_, _), LayoutChildrenFrom(_, _)
\* the loop of layout_block_children, from child i on
LayoutChildrenFrom(box, i) ==
    IF i > Len(box.children) THEN box
    ELSE LET child == layout(box.children[i], box.dimensions)
         IN  LayoutChildrenFrom(
                 [box EXCEPT !.children[i] = child,
                             !.dimensions.content.height =
                                 @ + margin_box(child.dimensions).height],
                 i + 1)

layout_block_children(box) == LayoutChildrenFrom(box, 1)

layout_block(box, containing_block) ==
    calculate_block_height(
        layout_block_children(
            calculate_block_position(
                calculate_block_width(box, containing_block), containing_block)))

\* a slip: an Inline box is laid out as a block
layout_inline_as_block(box, containing_block) ==
    IF box.box_type.tag \in {"BlockNode", "InlineNode"}
    THEN layout_block(box, containing_block) ELSE box

layout(box, containing_block) ==
    IF box.box_type.tag = "BlockNode" THEN layout_block(box, containing_block) ELSE box

----------------------------------------------------------------------------
(* Inputs of the layout engine *)

\* the styles of the nodes of the trees laid out
TreeStyles ==
    { MapOf(<< <<"display", Keyword("block")>> >>),
      MapOf(<< <<"display", Keyword("block")>>, <<"height", Length(50)>> >>),
      MapOf(<< <<"display", Keyword("block")>>, <<"height", Auto>>, <<"width", Length(100)>>,
               <<"margin", Length(10)>>, <<"border-width", Length(2)>>,
               <<"padding-top", Length(4)>> >>),
      EmptyMap,
      MapOf(<< <<"display", Keyword("none")>> >>) }

MaxNodes == 4

RECURSIVE StyledTrees(_, _), StyledForests(_, _, _)
\* the styled trees of exactly n nodes whose root is at `path`
StyledTrees(n, path) ==
    { [node |-> path, specified_values |-> s, children |-> f] :
          s \in TreeStyles, f \in StyledForests(n - 1, path, 1) }

\* the sequences of styled trees of m nodes in all, the first being child k of `path`
StyledForests(m, path, k) ==
    IF m = 0 THEN { <<>> }
    ELSE UNION { { <<t>> \o f : t \in StyledTrees(j, Append(path, k)),
                                 f \in StyledForests(m - j, path, k + 1) } : j \in 1..m }

ContainingBlocks ==
    { [DefaultDimensions EXCEPT !.content = [x |-> x, y |-> 0, width |-> w, height |-> 0]] :
          x \in {0}, w \in {200} }
    \cup { [DefaultDimensions EXCEPT !.content = [x |-> 10, y |-> 30, width |-> 200, height |-> 20]] }

\* the values a horizontal property of the width solver's inputs may take
\* (None: the property is not declared)
WidthValues == {None, Auto, Length(400), Length(500), Length(700), Keyword("inherit")}

MarginValues == {None, Auto, Length(50), Keyword("inherit")}

EdgeValues == {None, Length(10)}

WidthStyles ==
    { MapOf(SelectSeq(<< <<"display", Keyword("block")>>, <<"width", w>>, <<"margin-left", ml>>,
                         <<"margin-right", mr>>, <<"margin", m>>, <<"padding-left", pl>>,
                         <<"border-width", bw>> >>,
                      LAMBDA p : p[2] # None)) :
          w \in WidthValues, ml \in MarginValues, mr \in MarginValues, m \in MarginValues,
          pl \in EdgeValues, bw \in EdgeValues }

WidthContainingBlocks ==
    { [DefaultDimensions EXCEPT !.content = [x |-> x, y |-> 0, width |-> w, height |-> 0]] :
          x \in {0, 10}, w \in {60, 500, 600} }

----------------------------------------------------------------------------
(* Inputs of the style resolver *)

Grey == ColorValue(204, 204, 204)

Red == ColorValue(204, 0, 0)

SelP == SimpleSelector(Some("p"), Nothing, <<>>)

SelName == SimpleSelector(Nothing, Nothing, <<"name">>)

SelPName == SimpleSelector(Some("p"), Nothing, <<"name">>)

SelX == SimpleSelector(Nothing, Some("x"), <<>>)

\* selector lists as written in a stylesheet text
WrittenSelectorLists ==
    { <<SelP>>, <<SelName>>, <<SelPName>>, <<SelX>>,
      <<SelP, SelPName>>, <<SelName, SelX>>, <<SelP, SelX>>, <<SelName, SelPName>> }

\* selector lists in stored order: a Rule holds its selectors as
\* parse_selectors leaves them, sorted
SelectorLists == { SortSelectors(sl) : sl \in WrittenSelectorLists }

DeclarationLists ==
    { <<Declaration("color", Grey)>>,
      <<Declaration("color", Red)>>,
      <<Declaration("display", Keyword("none"))>>,
      <<Declaration("display", Keyword("block"))>>,
      <<Declaration("color", Grey), Declaration("color", Red)>> }

CascadeRules == { Rule(sl, dl) : sl \in SelectorLists, dl \in DeclarationLists }

TreeRules ==
    { Rule(<<SelP>>, <<Declaration("display", Keyword("none"))>>),
      Rule(<<SelName>>, <<Declaration("display", Keyword("block"))>>),
      Rule(<<SelX>>, <<Declaration("display", Keyword("none"))>>),
      Rule(<<SelP>>, <<Declaration("color", Red)>>) }

MaxRules == 2

\* the stylesheets of at most MaxRules rules taken from a set of rules
Stylesheets(ruleSet) ==
    { [rules |-> rs] : rs \in UNION { [1..n -> ruleSet] : n \in 0..MaxRules } }

NoAttributes == [n \in {} |-> <<>>]

ClassName == [n \in {"class"} |-> <<"n", "a", "m", "e">>]

ClassANameIdX == [n \in {"class", "id"} |-> IF n = "id" THEN <<"x">> ELSE <<"a", " ", "n", "a", "m", "e">>]

IdX == [n \in {"id"} |-> <<"x">>]

\* the elements the cascade is run on
CascadeElements ==
    { elem("p", NoAttributes, <<>>), elem("p", ClassName, <<>>),
      elem("p", ClassANameIdX, <<>>), elem("div", IdX, <<>>) }

\* the node types of the document trees
TreeNodeTypes ==
    { elem("p", NoAttributes, <<>>).node_type, elem("p", ClassName, <<>>).node_type,
      elem("div", IdX, <<>>).node_type, text("Hello").node_type }

MaxDocNodes == 3

RECURSIVE DocTrees(_), DocForests(_)
\* the document trees of exactly n nodes
DocTrees(n) == { [childlen |-> f, node_type |-> t] : t \in TreeNodeTypes, f \in DocForests(n - 1) }

\* the sequences of document trees of m nodes in all
DocForests(m) ==
    IF m = 0 THEN { <<>> }
    ELSE UNION { { <<t>> \o f : t \in DocTrees(j), f \in DocForests(m - j) } : j \in 1..m }

----------------------------------------------------------------------------
(* The components that a specification leaves out stay idle *)

ParserIdle ==
    /\ input = <<>>
    /\ pos = 0
    /\ ppc = "idle"
    /\ rules = <<>>
    /\ selectors = <<>>
    /\ selector = NewSelector
    /\ declaration = <<>>
    /\ parsed = Nothing
    /\ defects = {}

StyleIdle ==
    /\ document = text("")
    /\ stylesheet = [rules |-> <<>>]
    /\ spc = "idle"

LayoutIdle ==
    /\ containing = DefaultDimensions
    /\ root = NoBox
    /\ lpc = "idle"

\* no style_tree has run yet
NoStyled == [node |-> <<>>, specified_values |-> EmptyMap, children |-> <<>>]

----------------------------------------------------------------------------
(* The style resolver as a state machine *)

InitCascade ==
    /\ document \in CascadeElements
    /\ stylesheet \in Stylesheets(CascadeRules)
    /\ spc = "input"
    /\ styled = NoStyled
    /\ LayoutIdle
    /\ ParserIdle

InitStyle ==
    /\ document \in UNION { DocTrees(n) : n \in 1..MaxDocNodes }
    /\ stylesheet \in Stylesheets(TreeRules)
    /\ spc = "input"
    /\ styled = NoStyled
    /\ LayoutIdle
    /\ ParserIdle

StyleTree ==
    /\ spc = "input"
    /\ styled' = style_tree(document, <<>>, stylesheet)
    /\ spc' = "styled"
    /\ UNCHANGED <<document, stylesheet>>
    /\ UNCHANGED layoutVars
    /\ UNCHANGED parserVars

NextStyle == StyleTree

SpecCascade == InitCascade /\ [][NextStyle]_vars

SpecStyle == InitStyle /\ [][NextStyle]_vars

----------------------------------------------------------------------------
(* Inputs of the parser: a rule text put together from pieces, each piece     *)
(* well-formed or carrying one of the errors of the grammar.                  *)

Piece(s, d) == [s |-> s, d |-> d]

\* p | p,a | p, #x | .c,p.c , #x.c | a,.c,b,.d | * | p a | p:
SelectorTexts ==
    { Piece(<<"p">>, {}),
      Piece(<<"p", ",", "a">>, {}),
      Piece(<<"p", ",", " ", "#", "x">>, {}),
      Piece(<<".", "c", ",", "p", ".", "c", " ", ",", " ", "#", "x", ".", "c">>, {}),
      Piece(<<"a", ",", ".", "c", ",", "b", ",", ".", "d">>, {}),
      Piece(<<"*">>, {}),
      Piece(<<"p", " ", "a">>, {"separator"}),
      Piece(<<"p", ":">>, {"separator"}) }

\* { | (blank){(newline) | nothing
OpenTexts ==
    { Piece(<<"{">>, {}),
      Piece(<<" ", "{", "\n">>, {}),
      Piece(<<>>, {"open"}) }

\* : | nothing
ColonTexts ==
    { Piece(<<":">>, {}),
      Piece(<<>>, {"colon"}) }

\* 1px | 20PX | 1.0px | b | 1 | 1em | 1.2.3px | #0a1B2c | #0a1b | #0a1b2c3 | #0g1b2c | #+f+f+f
ValueTexts ==
    { Piece(<<"1", "p", "x">>, {}),
      Piece(<<"2", "0", "P", "X">>, {}),
      Piece(<<"1", ".", "0", "p", "x">>, {}),
      Piece(<<"b">>, {}),
      Piece(<<"1">>, {"unit"}),
      Piece(<<"1", "e", "m">>, {"unit"}),
      Piece(<<"1", ".", "2", ".", "3", "p", "x">>, {"number"}),
      Piece(<<"#", "0", "a", "1", "B", "2", "c">>, {}),
      Piece(<<"#", "0", "a", "1", "b">>, {"hex"}),
      Piece(<<"#", "0", "a", "1", "b", "2", "c", "3">>, {"hex"}),
      Piece(<<"#", "0", "g", "1", "b", "2", "c">>, {"hex"}),
      Piece(<<"#", "+", "f", "+", "f", "+", "f">>, {"hex"}) }

\* ; | (blank); | nothing
SemicolonTexts ==
    { Piece(<<";">>, {}),
      Piece(<<" ", ";">>, {}),
      Piece(<<>>, {"semicolon"}) }

\* nothing | d:b;
MoreDeclarationTexts ==
    { Piece(<<>>, {}),
      Piece(<<" ", "d", ":", "b", ";">>, {}) }

\* } | nothing
CloseTexts ==
    { Piece(<<"}">>, {}),
      Piece(<<>>, {"close"}) }

\* nothing | (newline) | (blank)a{}
TailTexts ==
    { Piece(<<>>, {}),
      Piece(<<"\n">>, {}),
      Piece(<<" ", "a", "{", "}">>, {}) }

\* nothing | a{d:b;}(blank): a well-formed rule before the rule put together
HeadTexts ==
    { Piece(<<>>, {}),
      Piece(<<"a", "{", "d", ":", "b", ";", "}", " ">>, {}) }

\* no declaration, or `w` colon value semicolon and perhaps a second declaration
DeclarationTexts ==
    { Piece(<<>>, {}) }
    \cup { Piece(<<"w">> \o c.s \o v.s \o sc.s \o m.s, c.d \cup v.d \cup sc.d \cup m.d) :
              c \in ColonTexts, v \in ValueTexts, sc \in SemicolonTexts, m \in MoreDeclarationTexts }

----------------------------------------------------------------------------
(* The parser as a state machine *)

\* parse(source): a Parser at position 0, about to run parse_rules
InitParse ==
    /\ \E h \in HeadTexts, sl \in SelectorTexts, o \in OpenTexts, ds \in DeclarationTexts,
          c \in CloseTexts, t \in TailTexts :
          /\ input = h.s \o sl.s \o o.s \o ds.s \o c.s \o t.s
          /\ defects = h.d \cup sl.d \cup o.d \cup ds.d \cup c.d \cup t.d
    /\ pos = 0
    /\ ppc = "rules"
    /\ rules = <<>>
    /\ selectors = <<>>
    /\ selector = NewSelector
    /\ declaration = <<>>
    /\ parsed = Nothing
    /\ StyleIdle
    /\ styled = NoStyled
    /\ LayoutIdle

SpecParse == InitParse /\ [][NextParse]_vars

\* the inputs on which the end of the parse is checked: of each kind of piece,
\* texts that take every loop round, leave it and abort in it
FairSelectorTexts ==
    { sl \in SelectorTexts : sl.s \in { <<".", "c", ",", "p", ".", "c", " ", ",", " ", "#", "x", ".", "c">>,
                                        <<"*">>,
                                        <<"p", " ", "a">> } }

FairOpenTexts == { o \in OpenTexts : o.s # <<"{">> }

FairValueTexts ==
    { v \in ValueTexts : v.s \in { <<"1", "p", "x">>, <<"b">>, <<"1", "e", "m">>,
                                   <<"#", "0", "a", "1", "B", "2", "c">>,
                                   <<"#", "0", "a", "1", "b">> } }

FairSemicolonTexts == { sc \in SemicolonTexts : sc.s # <<";">> }

FairDeclarationTexts ==
    { Piece(<<>>, {}) }
    \cup { Piece(<<"w">> \o c.s \o v.s \o sc.s \o m.s, c.d \cup v.d \cup sc.d \cup m.d) :
              c \in ColonTexts, v \in FairValueTexts, sc \in FairSemicolonTexts,
              m \in MoreDeclarationTexts }

InitParseFair ==
    /\ \E h \in HeadTexts, sl \in FairSelectorTexts, o \in FairOpenTexts,
          ds \in FairDeclarationTexts, c \in CloseTexts, t \in TailTexts :
          /\ input = h.s \o sl.s \o o.s \o ds.s \o c.s \o t.s
          /\ defects = h.d \cup sl.d \cup o.d \cup ds.d \cup c.d \cup t.d
    /\ pos = 0
    /\ ppc = "rules"
    /\ rules = <<>>
    /\ selectors = <<>>
    /\ selector = NewSelector
    /\ declaration = <<>>
    /\ parsed = Nothing
    /\ StyleIdle
    /\ styled = NoStyled
    /\ LayoutIdle

\* parse runs on its caller's thread with nothing to wait for: a step that can
\* be taken is taken
SpecParseFair == InitParseFair /\ [][NextParse]_vars /\ WF_vars(NextParse)

----------------------------------------------------------------------------
(* The layout pass as a state machine *)

InitLayout ==
    /\ styled \in UNION { StyledTrees(n, <<>>) : n \in 1..MaxNodes }
    /\ containing \in ContainingBlocks
    /\ root = NoBox
    /\ lpc = "styled"
    /\ StyleIdle
    /\ ParserIdle

InitWidth ==
    /\ styled \in { [node |-> <<>>, specified_values |-> s, children |-> <<>>] : s \in WidthStyles }
    /\ containing \in WidthContainingBlocks
    /\ root = NoBox
    /\ lpc = "styled"
    /\ StyleIdle
    /\ ParserIdle

BuildLayoutTree ==
    /\ lpc = "styled"
    /\ display(styled) # "None"
    /\ root' = build_layout_tree(styled)
    /\ lpc' = "built"
    /\ UNCHANGED <<styled, containing>>
    /\ UNCHANGED styleVars
    /\ UNCHANGED parserVars

\* build_layout_tree on a root whose display is none: panic
BuildLayoutTreePanic ==
    /\ lpc = "styled"
    /\ display(styled) = "None"
    /\ lpc' = "panic"
    /\ UNCHANGED <<styled, containing, root>>
    /\ UNCHANGED styleVars
    /\ UNCHANGED parserVars

Layout ==
    /\ lpc = "built"
    /\ root' = layout(root, containing)
    /\ lpc' = "laid"
    /\ UNCHANGED <<styled, containing>>
    /\ UNCHANGED styleVars
    /\ UNCHANGED parserVars

NextLayout == BuildLayoutTree \/ BuildLayoutTreePanic \/ Layout

NextWidth == BuildLayoutTree \/ Layout

SpecLayout == InitLayout /\ [][NextLayout]_vars

SpecWidth == InitWidth /\ [][NextWidth]_vars

----------------------------------------------------------------------------
(* Properties of the width solver (SpecWidth: one Block box) *)

\* the specified horizontal values of the root's style, as calculate_block_width reads them
SpecWidthValue == IF value(styled, "width") # None THEN value(styled, "width") ELSE Auto

SpecMarginLeft == lookup(styled, "margin-left", "margin", Zero)

SpecMarginRight == lookup(styled, "margin-right", "margin", Zero)

SpecEdges ==
    to_px(lookup(styled, "border-left-width", "border-width", Zero))
    + to_px(lookup(styled, "border-right-width", "border-width", Zero))
    + to_px(lookup(styled, "padding-left", "padding", Zero))
    + to_px(lookup(styled, "padding-right", "padding", Zero))

SpecTotal == to_px(SpecMarginLeft) + to_px(SpecMarginRight) + SpecEdges + to_px(SpecWidthValue)

RootLaidAsBlock == lpc = "laid" /\ root.box_type.tag = "BlockNode"

C2_Case ==
    /\ RootLaidAsBlock
    /\ containing.content.width = 500
    /\ SpecWidthValue = Length(500)
    /\ SpecMarginLeft = Length(50)
    /\ SpecMarginRight = Length(50)
    /\ SpecEdges = 0

\* C2 as claimed: over-constrained, containing width 500, width:500px,
\* margin-left:50px, margin-right:50px, no border or padding: the resolved
\* margin-right is 150, width and margin-left stay 500 and 50.
C2_MarginRight150 ==
    C2_Case => /\ root.dimensions.margin.right = 150
               /\ root.dimensions.content.width = 500
               /\ root.dimensions.margin.left = 50

\* C2 (amended): in that case the underflow is 500 - 600 = -100 and it is added
\* to margin-right: the resolved margin-right is 50 - 100 = -50, width and
\* margin-left stay 500 and 50, and the margin box is as wide as the container.
C2_OverConstrainedExample ==
    C2_Case => /\ root.dimensions.margin.right = -50
               /\ root.dimensions.content.width = 500
               /\ root.dimensions.margin.left = 50
               /\ margin_box(root.dimensions).width = 500

C2_Witness == C2_Case

C3_Case ==
    /\ RootLaidAsBlock
    /\ SpecWidthValue.type = "Length"
    /\ SpecMarginLeft = Auto
    /\ SpecMarginRight = Auto

\* C3: fixed width, both margins auto.  If the fixed parts fit, the two margins
\* are equal and each is half of (containing width - total); otherwise both are
\* forced to 0 and the over-constrained rule applies (margin-right absorbs the
\* negative underflow, margin-left stays 0).
C3_BothMarginsAuto ==
    C3_Case =>
        LET cw == containing.content.width
            d == root.dimensions
        IN  IF SpecTotal <= cw
            THEN /\ d.margin.left = d.margin.right
                 /\ 2 * d.margin.left = cw - SpecTotal
                 /\ d.content.width = to_px(SpecWidthValue)
            ELSE /\ d.margin.left = 0
                 /\ d.margin.right = cw - SpecTotal
                 /\ d.content.width = to_px(SpecWidthValue)

\* containing 600, width 400, no edges: 100 and 100
C3_Witness ==
    /\ C3_Case
    /\ containing.content.width = 600
    /\ SpecWidthValue = Length(400)
    /\ SpecEdges = 0
    /\ root.dimensions.margin.left = 100
    /\ root.dimensions.margin.right = 100

\* the other half of C3: the fixed parts do not fit
C3_WitnessOverflow == C3_Case /\ SpecTotal > containing.content.width

C4_Case == RootLaidAsBlock /\ SpecWidthValue = Auto

\* C4: width auto.  Auto margins count as 0; with underflow >= 0 the content
\* width is the underflow and margin-right keeps its specified value, otherwise
\* the content width is 0 and margin-right is its specified value plus the
\* (negative) underflow.  The content width is never negative.
C4_WidthAuto ==
    C4_Case =>
        LET underflow == containing.content.width - SpecTotal
            d == root.dimensions
        IN  /\ d.margin.left = to_px(SpecMarginLeft)
            /\ SpecMarginLeft = Auto => d.margin.left = 0
            /\ d.content.width >= 0
            /\ IF underflow >= 0
               THEN /\ d.content.width = underflow
                    /\ d.margin.right = to_px(SpecMarginRight)
                    /\ SpecMarginRight = Auto => d.margin.right = 0
               ELSE /\ d.content.width = 0
                    /\ d.margin.right = to_px(SpecMarginRight) + underflow

C4_Witness ==
    /\ C4_Case
    /\ containing.content.width - SpecTotal < 0
    /\ root.dimensions.content.width = 0

\* the first half of C4: containing 600, nothing specified, width 600
C4_WitnessFill ==
    /\ C4_Case
    /\ containing.content.width = 600
    /\ SpecTotal = 0
    /\ root.dimensions.content.width = 600

----------------------------------------------------------------------------
(* Properties of the box tree and of the layout pass (SpecLayout) *)

BoxPaths == Paths(root, <<>>)

BoxAt(bp) == NodeAt(root, bp)

IsNodeBox(b) == b.box_type.tag \in {"BlockNode", "InlineNode"}

\* the box at bp was reached by layout through a chain of Block boxes
LaidOut(bp) == \A k \in 0..Len(bp) : BoxAt(SubSeq(bp, 1, k)).box_type.tag = "BlockNode"

RECURSIVE SumMarginBoxHeights(_, _)
\* the sum of the margin-box heights of the first n boxes of a sequence
SumMarginBoxHeights(boxes, n) ==
    IF n = 0 THEN 0
    ELSE SumMarginBoxHeights(boxes, n - 1) + margin_box(boxes[n].dimensions).height

C5_Example ==
    /\ lpc = "laid"
    /\ containing.content.y = 0 /\ containing.content.height = 0
    /\ root.box_type.tag = "BlockNode"
    /\ margin_box(root.dimensions).y = root.dimensions.content.y
    /\ Len(root.children) = 2
    /\ \A i \in 1..2 :
          /\ root.children[i].box_type.tag = "BlockNode"
          /\ margin_box(root.children[i].dimensions).height = 50
          /\ margin_box(root.children[i].dimensions).y = root.children[i].dimensions.content.y

\* C5: in a laid-out Block box, the margin-box top edge of each Block child is
\* the parent's content.y plus the sum of the margin-box heights of the
\* children before it; its content.y is that plus its margin, border and
\* padding tops; consecutive Block children touch (no gap, no overlap); two
\* children of margin-box height 50 in a parent at y = 0 sit at 0 and 50.
C5_BlockStacking ==
    lpc = "laid" =>
        /\ \A bp \in BoxPaths : LaidOut(bp) =>
              LET b == BoxAt(bp)
                  blocks == { i \in DOMAIN b.children : b.children[i].box_type.tag = "BlockNode" }
                  top(i) == margin_box(b.children[i].dimensions).y
              IN  /\ \A i \in blocks :
                        LET d == b.children[i].dimensions
                            edge == b.dimensions.content.y + SumMarginBoxHeights(b.children, i - 1)
                        IN  /\ top(i) = edge
                            /\ d.content.y = edge + d.margin.top + d.border.top + d.padding.top
                  /\ \A i, j \in blocks :
                        (i < j /\ \A k \in blocks : ~(i < k /\ k < j)) =>
                            top(j) = top(i) + margin_box(b.children[i].dimensions).height
        /\ C5_Example => /\ root.children[1].dimensions.content.y = 0
                         /\ root.children[2].dimensions.content.y = 50

C5_Witness == C5_Example

\* a styled node is excluded when it or one of its ancestors has display none
Excluded(sp) == \E k \in 0..Len(sp) : display(NodeAt(styled, SubSeq(sp, 1, k))) = "None"

BoxesOf(sp) == { bp \in BoxPaths : IsNodeBox(BoxAt(bp)) /\ BoxAt(bp).box_type.node = sp }

\* C6: when the root is not display:none, no LayoutBox refers to a styled node
\* that is display:none or lies below such a node, and every other styled node
\* is referred to by exactly one LayoutBox.
C6_DisplayNoneExcluded ==
    lpc \in {"built", "laid"} =>
        \A sp \in Paths(styled, <<>>) :
            IF Excluded(sp) THEN BoxesOf(sp) = {} ELSE Cardinality(BoxesOf(sp)) = 1

\* a display:none node with a child that is not display:none itself
C6_Witness ==
    /\ lpc = "built"
    /\ \E sp \in Paths(styled, <<>>) :
          /\ display(NodeAt(styled, sp)) = "None"
          /\ \E i \in DOMAIN NodeAt(styled, sp).children :
                display(NodeAt(styled, sp).children[i]) = "Block"
    /\ \E sp \in Paths(styled, <<>>) : sp # <<>> /\ ~Excluded(sp)

RECURSIVE Flatten(_)
\* the children of a box, each Anonymous child replaced by its own children
Flatten(boxes) ==
    IF boxes = <<>> THEN <<>>
    ELSE (IF Head(boxes).box_type.tag = "AnonymousBlock"
          THEN Head(boxes).children ELSE <<Head(boxes)>>) \o Flatten(Tail(boxes))

RECURSIVE Refs(_)
Refs(boxes) == IF boxes = <<>> THEN <<>> ELSE <<Head(boxes).box_type.node>> \o Refs(Tail(boxes))

\* the references to the children of a styled node that are not display:none, in order
RECURSIVE ShownChildren(_, _)
ShownChildren(style_node, i) ==
    IF i > Len(style_node.children) THEN <<>>
    ELSE (IF display(style_node.children[i]) = "None" THEN <<>>
          ELSE <<style_node.children[i].node>>) \o ShownChildren(style_node, i + 1)

\* C10: a Block box has no Inline child; the inline-level children of a
\* block-level node sit in Anonymous children, one per maximal run (runs are
\* broken by block-level children only), in document order; no two adjacent
\* children of a Block box are Anonymous; an Anonymous box is not empty and
\* holds Inline boxes only; an Inline box takes its inline children directly.
C10_AnonymousWrapping ==
    lpc \in {"built", "laid"} =>
        \A bp \in BoxPaths :
            LET b == BoxAt(bp)
                n == Len(b.children)
                tag(i) == b.children[i].box_type.tag
            IN  /\ b.box_type.tag = "BlockNode" =>
                      /\ \A i \in 1..n : tag(i) # "InlineNode"
                      /\ \A i \in 1..(n - 1) :
                            ~(tag(i) = "AnonymousBlock" /\ tag(i + 1) = "AnonymousBlock")
                      /\ Refs(Flatten(b.children)) = ShownChildren(NodeAt(styled, b.box_type.node), 1)
                /\ b.box_type.tag = "AnonymousBlock" =>
                      /\ n >= 1
                      /\ \A i \in 1..n : tag(i) = "InlineNode"
                /\ b.box_type.tag = "InlineNode" =>
                      /\ \A i \in 1..n : tag(i) # "AnonymousBlock"
                      /\ Refs(b.children) = ShownChildren(NodeAt(styled, b.box_type.node), 1)

\* a Block root whose children are inline, none, inline, all in one Anonymous box
C10_Witness ==
    /\ lpc = "built"
    /\ root.box_type.tag = "BlockNode"
    /\ Len(styled.children) = 3
    /\ display(styled.children[1]) = "Inline"
    /\ display(styled.children[2]) = "None"
    /\ display(styled.children[3]) = "Inline"
    /\ Len(root.children) = 1
    /\ root.children[1].box_type.tag = "AnonymousBlock"
    /\ Len(root.children[1].children) = 2

\* a run broken by a block-level child: two Anonymous boxes around a Block box
C10_WitnessSplit ==
    /\ lpc = "built"
    /\ root.box_type.tag = "BlockNode"
    /\ Len(root.children) = 3
    /\ root.children[1].box_type.tag = "AnonymousBlock"
    /\ root.children[2].box_type.tag = "BlockNode"
    /\ root.children[3].box_type.tag = "AnonymousBlock"

----------------------------------------------------------------------------
(* Properties of the cascade (SpecCascade: one element) *)

\* the rules that match the element and declare the property
Declaring(e, name) ==
    { r \in DOMAIN stylesheet.rules :
        /\ match_rule(e, stylesheet.rules, r) # Nothing
        /\ \E d \in DOMAIN stylesheet.rules[r].declarations :
              stylesheet.rules[r].declarations[d].name = name }

Attached(e, r) == match_rule(e, stylesheet.rules, r)[1].specificity

\* rule r comes after rule q in the order (attached specificity, position)
Outranks(e, r, q) ==
    \/ SpecificityLess(Attached(e, q), Attached(e, r))
    \/ Attached(e, q) = Attached(e, r) /\ q < r

\* the value of the last declaration of the property in rule r
DeclaredValue(r, name) ==
    LET ds == stylesheet.rules[r].declarations
        last == CHOOSE d \in DOMAIN ds :
                    /\ ds[d].name = name
                    /\ \A k \in DOMAIN ds : ds[k].name = name => k <= d
    IN  ds[last].value

CascadeProperties == {"color", "display", "width"}

\* C1: the value resolved for a property is the one declared by the greatest
\* matching rule under (attached specificity, position in the stylesheet):
\* higher specificity wins whatever the source order, equal specificity is
\* decided by the later rule; a property no matching rule declares is absent.
C1_CascadeOrder ==
    spc = "styled" =>
        LET e == document.node_type
        IN  /\ DOMAIN styled.specified_values \subseteq CascadeProperties
            /\ \A name \in CascadeProperties :
                  IF Declaring(e, name) = {}
                  THEN name \notin DOMAIN styled.specified_values
                  ELSE LET w == CHOOSE r \in Declaring(e, name) :
                                    \A q \in Declaring(e, name) \ {r} : Outranks(e, r, q)
                       IN  /\ name \in DOMAIN styled.specified_values
                           /\ styled.specified_values[name] = DeclaredValue(w, name)

\* <p class="name"> under `p.name { color: #cc0000 }` then `p { color: #cccccc }`:
\* the earlier, more specific rule wins
C1_Witness ==
    /\ spc = "styled"
    /\ document = elem("p", ClassName, <<>>)
    /\ stylesheet.rules = << Rule(<<SelPName>>, <<Declaration("color", Red)>>),
                             Rule(<<SelP>>, <<Declaration("color", Grey)>>) >>
    /\ styled.specified_values["color"] = Red

\* two matching rules of equal specificity: the later one wins
C1_WitnessTie ==
    /\ spc = "styled"
    /\ document = elem("p", ClassName, <<>>)
    /\ stylesheet.rules = << Rule(<<SelP>>, <<Declaration("color", Red)>>),
                             Rule(<<SelP>>, <<Declaration("color", Grey)>>) >>
    /\ styled.specified_values["color"] = Grey

----------------------------------------------------------------------------
(* Properties of the styled tree (SpecStyle: document trees) *)

StyledPaths == Paths(styled, <<>>)

\* a document node is dropped by the claimed pruning when the display it or
\* one of its ancestors resolves to is none
ResolvesToNone(dp) ==
    LET n == DocNodeAt(document, dp)
    IN  /\ n.node_type.tag = "Element"
        /\ display([specified_values |-> specified_values(n.node_type, stylesheet)]) = "None"

Pruned(dp) == \E k \in 0..Len(dp) : ResolvesToNone(SubSeq(dp, 1, k))

\* C7 as claimed: the styled tree mirrors the document tree except that a node
\* whose resolved display is none, and its whole subtree, are not in it.
C7_NoneOmitted ==
    spc = "styled" =>
        /\ \A sp \in StyledPaths : display(NodeAt(styled, sp)) # "None"
        /\ { NodeAt(styled, sp).node : sp \in StyledPaths }
               = { dp \in DocPaths(document, <<>>) : ~Pruned(dp) }

\* C7 (amended): the styled tree mirrors the document tree exactly, node for
\* node: the styled node at a path refers to the document node at that path and
\* has as many children; nodes whose display resolves to none are in it too,
\* with their subtrees.
C7_MirrorsDocument ==
    spc = "styled" =>
        /\ StyledPaths = DocPaths(document, <<>>)
        /\ \A sp \in StyledPaths :
              LET sn == NodeAt(styled, sp)
                  dn == DocNodeAt(document, sp)
              IN  /\ sn.node = sp
                  /\ Len(sn.children) = Len(dn.childlen)
                  /\ dn.node_type.tag = "Text" => sn.specified_values = EmptyMap
                  /\ dn.node_type.tag = "Element" =>
                        sn.specified_values = specified_values(dn.node_type, stylesheet)

\* a styled node whose display is none, with a child, is in the styled tree
C7_Witness ==
    /\ spc = "styled"
    /\ \E sp \in StyledPaths :
          /\ display(NodeAt(styled, sp)) = "None"
          /\ Len(NodeAt(styled, sp).children) > 0

----------------------------------------------------------------------------
(* Properties of the parser (SpecParse) *)

\* C8: an input with one of the listed errors (an unexpected character where
\* "," or "{" is expected, a missing ":", ";", "{" or "}", a number without
\* the unit px, a "#" not followed by exactly six hex digits, an unparsable
\* number) makes parse abort: no Stylesheet is returned, not even the rules
\* parsed before the error.
C8_MalformedAborts ==
    /\ defects # {} => ppc # "returned" /\ parsed = Nothing
    /\ ppc = "panic" => parsed = Nothing

\* the input has a "#" value with a sign in its hex pairs
SignedHexPair == "+" \in Range(input)

\* what holds of C8: every listed error aborts the parse, except that a hex
\* pair made of "+" and one hex digit is taken for a number
C8_AbortsUnlessSignedHexPair ==
    /\ (defects # {} /\ ~SignedHexPair) => ppc # "returned" /\ parsed = Nothing
    /\ ppc = "panic" => parsed = Nothing

\* `p{w:#+f+f+f;}` and the like are parsed
C8_SignedHexPairParsed ==
    /\ ppc = "returned"
    /\ defects = {"hex"}
    /\ SignedHexPair
    /\ parsed[1].rules[1].declarations[1].value = ColorValue(15, 15, 15)

\* an error after a well-formed rule: nothing is returned, that rule included
C8_AbortAfterRule == ppc = "panic" /\ rules # <<>> /\ parsed = Nothing

NonIncreasing(sels) ==
    \A i, j \in DOMAIN sels :
        i < j => ~SpecificityLess(specificity(sels[i]), specificity(sels[j]))

\* `after` holds the selectors of `before`, each once, by descending
\* specificity, those of equal specificity in the order they have in `before`
IsStableDescendingSortOf(before, after) ==
    /\ Len(after) = Len(before)
    /\ NonIncreasing(after)
    /\ \E f \in Permutations(DOMAIN before) :
          /\ \A i \in DOMAIN after : after[i] = before[f[i]]
          /\ \A i, j \in DOMAIN after :
                (i < j /\ specificity(after[i]) = specificity(after[j])) => f[i] < f[j]

\* C9: the selectors of every Rule that parse returns are in non-increasing
\* order of specificity, selectors of equal specificity in the order they were
\* written; sorting neither adds, drops nor alters a selector.  Step by step:
\* when parse_selectors returns, its list is the stable descending sort of the
\* list as parsed; that list goes unchanged into the Rule pushed; rules pushed
\* are not touched again and are what parse returns.
C9_SelectorsSorted ==
    /\ [][ /\ (ppc = "selector_list" /\ ppc' = "declarations_open")
                => IsStableDescendingSortOf(selectors, selectors')
           /\ (ppc \in {"declarations_open", "declarations"} /\ ppc' # "rules")
                => selectors' = selectors
           /\ (ppc = "declarations" /\ ppc' = "rules")
                => rules' = Append(rules, Rule(selectors, declaration))
           /\ ppc' = "returned" => parsed' = Some([rules |-> rules])
           /\ Len(rules') >= Len(rules) /\ SubSeq(rules', 1, Len(rules)) = rules ]_vars
    /\ [](\A r \in DOMAIN rules : NonIncreasing(rules[r].selectors))

\* `.c,p.c , #x.c` is returned as #x.c, p.c, .c
C9_Witness ==
    /\ ppc = "returned"
    /\ parsed[1].rules # <<>>
    /\ parsed[1].rules[1].selectors =
           << SimpleSelector(Nothing, Some("x"), <<"c">>),
              SimpleSelector(Some("p"), Nothing, <<"c">>),
              SimpleSelector(Nothing, Nothing, <<"c">>) >>

\* `p,a` is returned as p, a and `a,.c,b,.d` as .c, .d, a, b
C9_WitnessTie ==
    /\ ppc = "returned"
    /\ parsed[1].rules # <<>>
    /\ parsed[1].rules[1].selectors =
           << SimpleSelector(Nothing, Nothing, <<"c">>), SimpleSelector(Nothing, Nothing, <<"d">>),
              SimpleSelector(Some("a"), Nothing, <<>>), SimpleSelector(Some("b"), Nothing, <<>>) >>

----------------------------------------------------------------------------
(* Properties of match_rule (SpecCascade) *)

\* the selectors of rule r that match the element
MatchingSelectors(e, r) ==
    { i \in DOMAIN stylesheet.rules[r].selectors : matchs(e, stylesheet.rules[r].selectors[i]) }

----------------------------------------------------------------------------
(* The horizontal sum (SpecWidth) *)

HorizontalSum(d) ==
    d.margin.left + d.border.left + d.padding.left + d.content.width
    + d.padding.right + d.border.right + d.margin.right

\* which arm of the match of calculate_block_width the root's style takes
WidthArm ==
    LET overflow == SpecWidthValue # Auto /\ SpecTotal > containing.content.width
        ml == IF overflow /\ SpecMarginLeft = Auto THEN Zero ELSE SpecMarginLeft
        mr == IF overflow /\ SpecMarginRight = Auto THEN Zero ELSE SpecMarginRight
    IN  IF SpecWidthValue = Auto THEN "width"
        ELSE IF ml = Auto /\ mr = Auto THEN "both"
        ELSE IF ml = Auto THEN "left"
        ELSE IF mr = Auto THEN "right"
        ELSE "none"

\* C12: after the width of a Block box is resolved, whichever of width and
\* margins are auto, fixed or keywords counted as 0, the used margins, borders,
\* paddings and content width add up to the content width of the containing
\* block: the margin box is as wide as the container and, once the box is
\* positioned, starts at the container's content.x.
C12_HorizontalSum ==
    RootLaidAsBlock =>
        /\ HorizontalSum(root.dimensions) = containing.content.width
        /\ margin_box(root.dimensions).width = containing.content.width
        /\ margin_box(root.dimensions).x = containing.content.x

\* the overflow pre-step: fixed width, parts wider than the container, an auto
\* margin forced to 0, a negative margin-right
C12_Witness ==
    /\ RootLaidAsBlock
    /\ SpecWidthValue.type = "Length"
    /\ SpecTotal > containing.content.width
    /\ SpecMarginLeft = Auto
    /\ root.dimensions.margin.left = 0
    /\ root.dimensions.margin.right < 0
    /\ containing.content.x = 10

\* keywords other than auto for the width and for a margin, counted as 0
C12_WitnessKeyword ==
    /\ RootLaidAsBlock
    /\ SpecWidthValue = Keyword("inherit")
    /\ SpecMarginLeft = Keyword("inherit")
    /\ root.dimensions.content.width = 0
    /\ root.dimensions.margin.left = 0

C12_WitnessArmNone == RootLaidAsBlock /\ WidthArm = "none"

C12_WitnessArmLeft == RootLaidAsBlock /\ WidthArm = "left"

C12_WitnessArmRight == RootLaidAsBlock /\ WidthArm = "right"

C12_WitnessArmWidth == RootLaidAsBlock /\ WidthArm = "width"

C12_WitnessArmBoth == RootLaidAsBlock /\ WidthArm = "both"

----------------------------------------------------------------------------
(* The height of a Block box (SpecLayout) *)

RECURSIVE SumBlockHeights(_, _)
\* the sum of the margin-box heights of the Block boxes among the first n boxes
SumBlockHeights(boxes, n) ==
    IF n = 0 THEN 0
    ELSE SumBlockHeights(boxes, n - 1)
         + (IF boxes[n].box_type.tag = "BlockNode"
            THEN margin_box(boxes[n].dimensions).height ELSE 0)

ExplicitHeight(b) == value(get_style_node(b), "height").type = "Length"

\* C13: after layout, the content.height of a Block box that was laid out is
\* the pixel length of its height property when it has one, whatever its
\* children; otherwise (no height, or a keyword such as auto) it is the sum of
\* the margin-box heights of all its children, of which those that are not
\* Block boxes contribute 0.
C13_BlockHeight ==
    lpc = "laid" =>
        \A bp \in BoxPaths : LaidOut(bp) =>
            LET b == BoxAt(bp)
                n == Len(b.children)
            IN  /\ ExplicitHeight(b) =>
                      b.dimensions.content.height = value(get_style_node(b), "height").f
                /\ ~ExplicitHeight(b) =>
                      /\ b.dimensions.content.height = SumMarginBoxHeights(b.children, n)
                      /\ b.dimensions.content.height = SumBlockHeights(b.children, n)
                /\ \A i \in 1..n : b.children[i].box_type.tag # "BlockNode" =>
                      margin_box(b.children[i].dimensions).height = 0

\* height: auto on the root, a Block child of explicit height 50 that has a
\* Block child of its own with a margin box 28 high, and an anonymous child
C13_Witness ==
    /\ lpc = "laid"
    /\ root.box_type.tag = "BlockNode"
    /\ value(get_style_node(root), "height") = Auto
    /\ root.dimensions.content.height = 50
    /\ \E i, j \in DOMAIN root.children :
          /\ root.children[i].box_type.tag = "BlockNode"
          /\ ExplicitHeight(root.children[i])
          /\ Len(root.children[i].children) = 1
          /\ margin_box(root.children[i].children[1].dimensions).height = 28
          /\ root.children[i].dimensions.content.height = 50
          /\ root.children[j].box_type.tag = "AnonymousBlock"

\* no height at all: the heights of two Block children add up
C13_WitnessSum ==
    /\ lpc = "laid"
    /\ root.box_type.tag = "BlockNode"
    /\ value(get_style_node(root), "height") = None
    /\ Len(root.children) = 2
    /\ root.dimensions.content.height = 78

----------------------------------------------------------------------------
(* What a layout pass leaves alone (SpecLayout) *)

\* the box at bp after the step
BoxAtNext(bp) == NodeAt(root', bp)

\* C14: a layout pass keeps the shape of the layout tree, and changes the
\* dimensions of no box but the Block boxes reached from the root through a
\* chain of Block boxes: layout of an Inline or Anonymous box returns it as it
\* is, so that box and every box below it, Block boxes included, keep the
\* all-zero dimensions build_layout_tree gave them.
C14_LayoutFrame ==
    [][Layout =>
          \A bp \in BoxPaths :
              /\ BoxAtNext(bp).box_type = BoxAt(bp).box_type
              /\ Len(BoxAtNext(bp).children) = Len(BoxAt(bp).children)
              /\ BoxAt(bp).box_type.tag # "BlockNode" =>
                    \A c \in ContainingBlocks \cup {root.dimensions, root'.dimensions} :
                        layout(BoxAt(bp), c) = BoxAt(bp)
              /\ ~LaidOut(bp) =>
                    /\ BoxAtNext(bp) = BoxAt(bp)
                    /\ BoxAtNext(bp).dimensions = DefaultDimensions
              /\ BoxAtNext(bp).dimensions # BoxAt(bp).dimensions => LaidOut(bp)]_vars

\* a Block box of explicit height 50 below an Inline box below an Anonymous
\* box of a Block root: after the pass that changed the root it is still all zero
C14_Witness ==
    /\ lpc = "laid"
    /\ root.box_type.tag = "BlockNode"
    /\ root.dimensions # DefaultDimensions
    /\ \E bp \in BoxPaths :
          /\ Len(bp) = 3
          /\ BoxAt(SubSeq(bp, 1, 1)).box_type.tag = "AnonymousBlock"
          /\ BoxAt(SubSeq(bp, 1, 2)).box_type.tag = "InlineNode"
          /\ BoxAt(bp).box_type.tag = "BlockNode"
          /\ ExplicitHeight(BoxAt(bp))
          /\ BoxAt(bp).dimensions = DefaultDimensions

\* an Inline root: the pass changes nothing at all
C14_WitnessInlineRoot ==
    /\ lpc = "laid"
    /\ root.box_type.tag = "InlineNode"
    /\ Len(root.children) >= 1
    /\ root.children[1].box_type.tag = "BlockNode"
    /\ root.children[1].dimensions = DefaultDimensions

----------------------------------------------------------------------------
(* Progress and termination of the parser (SpecParseFair) *)

ParseOver == ppc \in {"returned", "panic"}

Aborts == ppc' = "panic"

Advances == pos' > pos

\* the steps that end an iteration of each loop and go round again
SimpleSelectorLoops == ppc = "simple_selector" /\ ppc' = "simple_selector"

SelectorsLoops == ppc = "selector_list" /\ ppc' = "simple_selector"

DeclarationsLoops == ppc = "declarations" /\ ppc' = "declarations"

RulesLoops == ppc = "declarations" /\ ppc' = "rules"

\* the steps that end an iteration by leaving the loop (the iteration of
\* parse_declarations that leaves on "}" is RulesLoops)
SimpleSelectorBreaks == ppc = "simple_selector" /\ ppc' = "selector_list"

SelectorsBreaks == ppc = "selector_list" /\ ppc' = "declarations_open"

\* the last iteration of parse_rules is one step: blanks are skipped, eof, break
RulesBreaks == ppc = "rules" /\ ppc' = "returned"

\* C15 as stated: every iteration of the four loops advances the position by
\* at least one character or aborts, the last iteration of parse_rules, which
\* finds the end of the input and breaks, included.
C15_EveryIterationAdvances ==
    [][(SimpleSelectorLoops \/ SelectorsLoops \/ DeclarationsLoops \/ RulesLoops \/ RulesBreaks)
       => Advances \/ Aborts]_vars

\* C15, amended: parse ends, returning or aborting; the position never
\* decreases and never passes the end of the input; every iteration of the
\* loops of parse_rules, parse_selectors, parse_simple_selector and
\* parse_declarations advances the position by at least one character, aborts
\* or leaves its loop (the last iteration of parse_rules, on an input that
\* does not end in blanks, consumes nothing); when parse returns, the
\* position is at the end of the input.
C15_ParseTerminates ==
    /\ [][/\ pos' >= pos
          /\ pos' <= Len(input)
          /\ (SimpleSelectorLoops \/ SelectorsLoops \/ DeclarationsLoops \/ RulesLoops) => Advances
          /\ ppc = "declarations" => Advances \/ Aborts
          /\ ppc \in {"simple_selector", "selector_list", "declarations_open", "rules"} =>
                \/ Advances \/ Aborts
                \/ SimpleSelectorBreaks \/ SelectorsBreaks \/ RulesBreaks
                \/ (ppc = "rules" /\ ppc' = "simple_selector")]_vars
    /\ [](ppc = "returned" => pos = Len(input) /\ parsed # Nothing)
    /\ [](ParseOver => ~ENABLED NextParse)
    /\ <>ParseOver

\* parse returned two rules from an input that does not end in a blank: the
\* last iteration of parse_rules consumed nothing
C15_Witness ==
    /\ ppc = "returned"
    /\ pos = Len(input)
    /\ Len(input) > 0
    /\ input[Len(input)] \notin WhiteSpace
    /\ Len(parsed[1].rules) >= 2

\* parse aborted in the middle of the input
C15_WitnessAbort == ppc = "panic" /\ 0 < pos /\ pos < Len(input)

====
